---- MODULE Spec2Model ----
(***************************************************************************)
(* Role-based project-management REST API (users, projects, tasks).        *)
(* The stored collections are the state; every request handler of          *)
(* controllers/projectController.js, the task controller                   *)
(* (src/unnamed/part_001) and the user controller (src/unnamed/part_002)   *)
(* is one action.  Every handler is first written as an operator that      *)
(* maps (actor, request) and the current collections to the HTTP status    *)
(* and the collections it leaves behind; the action applies it.            *)
(*                                                                         *)
(* Ids are Mongo ObjectIds: allocated fresh, never reused.  They are       *)
(* modelled as 1, 2, ... in order of allocation; 0 stands for null /       *)
(* undefined.  A reference (manager, team entry, assignedTo, project) is   *)
(* an id and may dangle: no handler checks that a payload id names a       *)
(* stored user, and deleteUser does not touch projects or tasks.           *)
(***************************************************************************)
EXTENDS Integers, Sequences, FiniteSets, TLC

\* ------------------------------------------------------------------ bounds
MaxUsers    == 2   \* users ever registered
MaxProjects == 2   \* projects ever created
MaxTasks    == 2   \* tasks ever created
MaxTeam     == 2   \* longest team array a request body carries
FewProjects == 1   \* projects ever created, where requests interleave
FewTasks    == 1   \* tasks ever created, where every handler is in play

\* --------------------------------------------------------------- constants
Roles == {"admin", "manager", "member"}
NoId  == 0          \* null / undefined reference
NoRole == ""        \* role absent from the body (falsy)

VARIABLES
  users,      \* stored users:    id -> [role]
  nUsers,     \* number of user ids allocated so far
  projects,   \* stored projects: id -> [manager, team]
  nProjects,  \* number of project ids allocated so far
  tasks,      \* stored tasks:    id -> [project, assignedTo]
  nTasks,     \* number of task ids allocated so far
  ct,         \* a createTask request between its repository calls
  dp          \* a deleteProject request between its repository calls

vars == <<users, nUsers, projects, nProjects, tasks, nTasks, ct, dp>>

\* ------------------------------------------------------------ collections
Put(f, k, v) == [x \in (DOMAIN f) \cup {k} |-> IF x = k THEN v ELSE f[x]]
Drop(f, k)   == [x \in (DOMAIN f) \ {k} |-> f[x]]
Empty        == [x \in {} |-> 0]

InSeq(x, s) == \E i \in 1..Len(s) : s[i] = x

RECURSIVE SeqsUpTo(_, _)
SeqsUpTo(S, n) ==
  IF n = 0 THEN {<<>>}
  ELSE LET shorter == SeqsUpTo(S, n - 1)
       IN shorter \cup {Append(s, x) : s \in {t \in shorter : Len(t) = n - 1}, x \in S}

\* ids a client can name: the ids handed out so far (stored or deleted)
KnownUsers    == 1..nUsers
KnownProjects == 1..nProjects
KnownTasks    == 1..nTasks

\* The verified token's payload {id, role} (signed at register/login with the
\* role stored then, valid for 7 days): the id of any user ever registered,
\* with any role; neither is re-read from the store on a request.
Actors == [id : KnownUsers, role : Roles]

\* mongoose populate of a single reference: the document, or null
Populate(id) == IF id \in DOMAIN users THEN id ELSE NoId
\* mongoose populate of an array of references: the documents found
PopulateTeam(team) == SelectSeq(team, LAMBDA m : m \in DOMAIN users)


\* ------------------------------------------------------------------ users
\* register: a new user with the role of the body, member when none is given,
\* under a fresh id
register(role) ==
  [status |-> 200,
   users  |-> Put(users, nUsers + 1, [role |-> IF role # NoRole THEN role ELSE "member"])]

\* userFields with the actor's role not looked at
userFieldsAnyActor(actor, body) == body.role

\* the $set document of updateUser, as far as the role goes: the body's role
\* when the actor is admin, nothing otherwise
userFields(actor, body) ==
  IF body.role # NoRole /\ actor.role = "admin" THEN body.role ELSE NoRole

updateUser(actor, id, body) ==
  IF ~body.valid THEN [status |-> 400, users |-> users]
  ELSE IF id \notin DOMAIN users THEN [status |-> 404, users |-> users]
  ELSE IF actor.id # id /\ actor.role # "admin" THEN [status |-> 403, users |-> users]
  ELSE LET fields == userFields(actor, body)
       IN [status |-> 200,
           users  |-> IF fields # NoRole
                      THEN Put(users, id, [users[id] EXCEPT !.role = fields])
                      ELSE users]

deleteUser(actor, id) ==
  IF id \notin DOMAIN users THEN [status |-> 404, users |-> users]
  ELSE IF actor.id # id /\ actor.role # "admin" THEN [status |-> 403, users |-> users]
  ELSE [status |-> 200, users |-> Drop(users, id)]

\* --------------------------------------------------------------- projects
\* the roles middleware in front of POST /api/projects
authorize(roles, actor) == actor.role \in roles

\* Answers the ids of the projects found; populate leaves a project whose
\* manager or team member is gone in the list.
getProjects(actor) ==
  IF actor.role = "admin"
  THEN [status |-> 200, projects |-> DOMAIN projects]
  ELSE IF actor.role = "manager"
  THEN [status |-> 200,
        projects |-> {p \in DOMAIN projects :
                        \/ projects[p].manager = actor.id
                        \/ InSeq(actor.id, projects[p].team)}]
  ELSE [status |-> 200,
        projects |-> {p \in DOMAIN projects : InSeq(actor.id, projects[p].team)}]

getProjectById(actor, id) ==
  IF id \notin DOMAIN projects THEN [status |-> 404]
  ELSE LET project == projects[id]
           manager == Populate(project.manager)
           team    == PopulateTeam(project.team)
       IN IF manager = NoId
          THEN [status |-> 500]      \* project.manager.id on null throws
          ELSE LET isAdmin      == actor.role = "admin"
                   isManager    == actor.id = manager
                   isTeamMember == InSeq(actor.id, team)
               IN IF ~isAdmin /\ ~isManager /\ ~isTeamMember
                  THEN [status |-> 403]
                  ELSE [status |-> 200]

\* body: [valid, manager (NoId when absent), hasTeam, team]
createProject(actor, body) ==
  IF ~authorize({"admin", "manager"}, actor)
  THEN [status |-> 403, projects |-> projects]
  ELSE IF ~body.valid THEN [status |-> 400, projects |-> projects]
  ELSE IF actor.role # "admin" /\ actor.role # "manager"
  THEN [status |-> 403, projects |-> projects]
  ELSE LET project == [manager |-> IF body.manager # NoId THEN body.manager ELSE actor.id,
                       team    |-> IF body.hasTeam THEN body.team ELSE <<>>]
           saved   == Put(projects, nProjects + 1, project)
       IN \* res.json(populatedTask): populatedTask is not defined, the
          \* ReferenceError is caught and answered 500 after the save
          [status |-> 500, projects |-> saved]

\* the body's fields written as they come, absent ones included
projectFieldsOverwrite(project, body) ==
  [manager |-> body.manager, team |-> body.team]

\* the $set document of updateProject applied to the stored project
projectFields(project, body) ==
  [manager |-> IF body.manager # NoId THEN body.manager ELSE project.manager,
   team    |-> IF body.hasTeam THEN body.team ELSE project.team]

\* updateProject writing before it checks the actor
updateProjectWriteFirst(actor, id, body) ==
  IF id \notin DOMAIN projects THEN [status |-> 404, projects |-> projects]
  ELSE LET project   == projects[id]
           isAdmin   == actor.role = "admin"
           isManager == actor.id = project.manager
           written   == Put(projects, id, projectFields(project, body))
       IN IF ~isAdmin /\ ~isManager
          THEN [status |-> 403, projects |-> written]
          ELSE [status |-> 200, projects |-> written]

updateProject(actor, id, body) ==
  IF id \notin DOMAIN projects THEN [status |-> 404, projects |-> projects]
  ELSE LET project   == projects[id]
           isAdmin   == actor.role = "admin"
           isManager == actor.id = project.manager
       IN IF ~isAdmin /\ ~isManager
          THEN [status |-> 403, projects |-> projects]
          ELSE [status |-> 200,
                projects |-> Put(projects, id, projectFields(project, body))]

\* deleteMany that matches no task
deleteManyNone(ts, id) == ts

\* Task.deleteMany({project: id})
deleteMany(ts, id) ==
  [t \in {x \in DOMAIN ts : ts[x].project # id} |-> ts[t]]

deleteProject(actor, id) ==
  IF id \notin DOMAIN projects
  THEN [status |-> 404, projects |-> projects, tasks |-> tasks]
  ELSE LET project   == projects[id]
           isAdmin   == actor.role = "admin"
           isManager == actor.id = project.manager
       IN IF ~isAdmin /\ ~isManager
          THEN [status |-> 403, projects |-> projects, tasks |-> tasks]
          ELSE [status |-> 200,
                projects |-> Drop(projects, id),
                tasks    |-> deleteMany(tasks, id)]

\* the membership test comparing against nothing
inTeamNever(project, userId) == FALSE

\* project.team.some(member => member.toString() === userId)
inTeam(project, userId) == InSeq(userId, project.team)

\* addTeamMember open to every actor whose role is manager
addTeamMemberAnyManager(actor, id, userId) ==
  IF id \notin DOMAIN projects THEN [status |-> 404, projects |-> projects]
  ELSE LET project   == projects[id]
           isAdmin   == actor.role = "admin"
           isManager == actor.role = "manager" \/ actor.id = project.manager
       IN IF ~isAdmin /\ ~isManager
          THEN [status |-> 403, projects |-> projects]
          ELSE IF inTeam(project, userId)
          THEN [status |-> 400, projects |-> projects]
          ELSE [status |-> 200,
                projects |-> Put(projects, id,
                                 [project EXCEPT !.team = Append(project.team, userId)])]

addTeamMember(actor, id, userId) ==
  IF id \notin DOMAIN projects THEN [status |-> 404, projects |-> projects]
  ELSE LET project   == projects[id]
           isAdmin   == actor.role = "admin"
           isManager == actor.id = project.manager
       IN IF ~isAdmin /\ ~isManager
          THEN [status |-> 403, projects |-> projects]
          ELSE IF inTeam(project, userId)
          THEN [status |-> 400, projects |-> projects]
          ELSE [status |-> 200,
                projects |-> Put(projects, id,
                                 [project EXCEPT !.team = Append(project.team, userId)])]

removeTeamMember(actor, id, userId) ==
  IF id \notin DOMAIN projects THEN [status |-> 404, projects |-> projects]
  ELSE LET project   == projects[id]
           isAdmin   == actor.role = "admin"
           isManager == actor.id = project.manager
       IN IF ~isAdmin /\ ~isManager
          THEN [status |-> 403, projects |-> projects]
          ELSE IF ~inTeam(project, userId)
          THEN [status |-> 400, projects |-> projects]
          ELSE [status |-> 200,
                projects |-> Put(projects, id,
                                 [project EXCEPT !.team =
                                    SelectSeq(project.team, LAMBDA m : m # userId)])]

\* ------------------------------------------------------------------ tasks
\* every stored project taken as accessible
accessibleProjectsAll(actor) == DOMAIN projects

\* Project.find({$or: [{manager: req.user.id}, {team: req.user.id}]})
accessibleProjects(actor) ==
  {p \in DOMAIN projects :
     projects[p].manager = actor.id \/ InSeq(actor.id, projects[p].team)}

\* query: [project (NoId when absent), assigned ("any" when absent, "me",
\* "unassigned" or "user"), user].  The status and priority filters are
\* further equalities on fields the model does not hold: they only narrow
\* the result.  Answers the ids of the tasks found.
getTasks(actor, query) ==
  LET byAssignee(t) ==
        CASE query.assigned = "me"         -> tasks[t].assignedTo = actor.id
          [] query.assigned = "unassigned" -> tasks[t].assignedTo = NoId
          [] query.assigned = "user"       -> tasks[t].assignedTo = query.user
          [] OTHER                         -> TRUE
  IN IF actor.role # "admin"
     THEN LET projectIds == accessibleProjects(actor)
          IN \* filter.project = {$in: projectIds} replaces the project asked for
             IF query.project # NoId /\ query.project \notin projectIds
             THEN [status |-> 403, tasks |-> {}]
             ELSE [status |-> 200,
                   tasks  |-> {t \in DOMAIN tasks :
                                 tasks[t].project \in projectIds /\ byAssignee(t)}]
     ELSE [status |-> 200,
           tasks  |-> {t \in DOMAIN tasks :
                         /\ query.project # NoId => tasks[t].project = query.project
                         /\ byAssignee(t)}]

getTaskById(actor, id) ==
  IF id \notin DOMAIN tasks THEN [status |-> 404]
  ELSE LET task == tasks[id]
       IN IF task.project \notin DOMAIN projects
          THEN [status |-> 500]      \* task.project is null: .manager throws
          ELSE LET project      == projects[task.project]
                   assignedTo   == Populate(task.assignedTo)
                   isAdmin      == actor.role = "admin"
                   isManager    == project.manager = actor.id
                   isTeamMember == InSeq(actor.id, project.team)
                   isAssigned   == assignedTo # NoId /\ assignedTo = actor.id
               IN IF ~isAdmin /\ ~isManager /\ ~isTeamMember /\ ~isAssigned
                  THEN [status |-> 403]
                  ELSE [status |-> 200]

\* body: [valid, project, assignedTo (NoId when absent)]
createTask(actor, body) ==
  IF ~body.valid THEN [status |-> 400, tasks |-> tasks]
  ELSE IF body.project \notin DOMAIN projects THEN [status |-> 404, tasks |-> tasks]
  ELSE LET projectObj   == projects[body.project]
           isAdmin      == actor.role = "admin"
           isManager    == projectObj.manager = actor.id
           isTeamMember == InSeq(actor.id, projectObj.team)
       IN IF ~isAdmin /\ ~isManager /\ ~isTeamMember
          THEN [status |-> 403, tasks |-> tasks]
          ELSE [status |-> 200,
                tasks  |-> Put(tasks, nTasks + 1,
                               [project |-> body.project, assignedTo |-> body.assignedTo])]

\* body: [assignedTo (NoId when absent)]
updateTask(actor, id, body) ==
  IF id \notin DOMAIN tasks THEN [status |-> 404, tasks |-> tasks]
  ELSE LET task == tasks[id]
       IN IF task.project \notin DOMAIN projects
          THEN [status |-> 500, tasks |-> tasks]
          ELSE LET project      == projects[task.project]
                   isAdmin      == actor.role = "admin"
                   isManager    == project.manager = actor.id
                   isTeamMember == InSeq(actor.id, project.team)
                   isAssigned   == task.assignedTo # NoId /\ task.assignedTo = actor.id
               IN IF ~isAdmin /\ ~isManager /\ ~isTeamMember /\ ~isAssigned
                  THEN [status |-> 403, tasks |-> tasks]
                  ELSE [status |-> 200,
                        tasks  |-> IF body.assignedTo # NoId
                                   THEN Put(tasks, id,
                                            [task EXCEPT !.assignedTo = body.assignedTo])
                                   ELSE tasks]

\* deleteTask authorized like updateTask: team members and the assignee too
deleteTaskAsUpdate(actor, id) ==
  IF id \notin DOMAIN tasks THEN [status |-> 404, tasks |-> tasks]
  ELSE LET task == tasks[id]
       IN IF task.project \notin DOMAIN projects
          THEN [status |-> 500, tasks |-> tasks]
          ELSE LET project      == projects[task.project]
                   isAdmin      == actor.role = "admin"
                   isManager    == project.manager = actor.id
                   isTeamMember == InSeq(actor.id, project.team)
                   isAssigned   == task.assignedTo # NoId /\ task.assignedTo = actor.id
               IN IF ~isAdmin /\ ~isManager /\ ~isTeamMember /\ ~isAssigned
                  THEN [status |-> 403, tasks |-> tasks]
                  ELSE [status |-> 200, tasks |-> Drop(tasks, id)]

deleteTask(actor, id) ==
  IF id \notin DOMAIN tasks THEN [status |-> 404, tasks |-> tasks]
  ELSE LET task == tasks[id]
       IN IF task.project \notin DOMAIN projects
          THEN [status |-> 500, tasks |-> tasks]
          ELSE LET project   == projects[task.project]
                   isAdmin   == actor.role = "admin"
                   isManager == project.manager = actor.id
               IN IF ~isAdmin /\ ~isManager
                  THEN [status |-> 403, tasks |-> tasks]
                  ELSE [status |-> 200, tasks |-> Drop(tasks, id)]

\* ---------------------------------------------------------------- requests
\* What a request body can carry.  A body that fails validation is answered
\* 400 whatever else it holds, so one such body stands for all of them.
AllTeams      == SeqsUpTo(1..MaxUsers, MaxTeam)
Teams         == {t \in AllTeams : \A i \in 1..Len(t) : t[i] \in KnownUsers}
ProjectFields == [manager : KnownUsers \cup {NoId}, hasTeam : {TRUE}, team : Teams]
                 \cup [manager : KnownUsers \cup {NoId},
                       hasTeam : {FALSE}, team : {<<>>}]
UserBodies    == [valid : {TRUE}, role : Roles \cup {NoRole}]
                 \cup {[valid |-> FALSE, role |-> NoRole]}
ProjectBodies == {[valid |-> TRUE, manager |-> f.manager,
                   hasTeam |-> f.hasTeam, team |-> f.team] : f \in ProjectFields}
                 \cup {[valid |-> FALSE, manager |-> NoId,
                        hasTeam |-> FALSE, team |-> <<>>]}
TaskBodies    == [valid : {TRUE}, project : KnownProjects,
                  assignedTo : KnownUsers \cup {NoId}]
                 \cup {[valid |-> FALSE, project |-> NoId, assignedTo |-> NoId]}
TaskUpdates   == [assignedTo : KnownUsers \cup {NoId}]
TaskQueries   == [project : KnownProjects \cup {NoId},
                  assigned : {"any", "me", "unassigned"}, user : {NoId}]
                 \cup [project : KnownProjects \cup {NoId},
                       assigned : {"user"}, user : KnownUsers]

Idle == [pc |-> "idle", actor |-> NoId, project |-> NoId, assignedTo |-> NoId]

Init ==
  /\ users = Empty /\ nUsers = 0
  /\ projects = Empty /\ nProjects = 0
  /\ tasks = Empty /\ nTasks = 0
  /\ ct = Idle
  /\ dp = Idle

\* Each action answers one request: any actor, any input, the handler applied.
Register ==
  /\ nUsers < MaxUsers
  /\ \E r \in {register(role) : role \in Roles \cup {NoRole}} :
       /\ users' = r.users
       /\ nUsers' = nUsers + 1
  /\ UNCHANGED <<projects, nProjects, tasks, nTasks, ct, dp>>

UpdateUser ==
  /\ \E r \in {updateUser(actor, id, body) :
                 actor \in Actors, id \in KnownUsers, body \in UserBodies} :
       users' = r.users
  /\ UNCHANGED <<nUsers, projects, nProjects, tasks, nTasks, ct, dp>>

DeleteUser ==
  /\ \E r \in {deleteUser(actor, id) : actor \in Actors, id \in KnownUsers} :
       users' = r.users
  /\ UNCHANGED <<nUsers, projects, nProjects, tasks, nTasks, ct, dp>>

GetProjects ==
  /\ \E r \in {getProjects(actor) : actor \in Actors} : r.status = 200
  /\ UNCHANGED vars

GetProjectById ==
  /\ \E r \in {getProjectById(actor, id) : actor \in Actors, id \in KnownProjects} :
       r.status \in {200, 403, 404, 500}
  /\ UNCHANGED vars

CreateProject(limit) ==
  /\ nProjects < limit
  /\ \E r \in {createProject(actor, body) : actor \in Actors, body \in ProjectBodies} :
       /\ projects' = r.projects
       /\ nProjects' = IF r.projects # projects THEN nProjects + 1 ELSE nProjects
  /\ UNCHANGED <<users, nUsers, tasks, nTasks, ct, dp>>

UpdateProject ==
  /\ \E r \in {updateProject(actor, id, body) :
                 actor \in Actors, id \in KnownProjects, body \in ProjectFields} :
       projects' = r.projects
  /\ UNCHANGED <<users, nUsers, nProjects, tasks, nTasks, ct, dp>>

DeleteProject ==
  /\ \E r \in {deleteProject(actor, id) : actor \in Actors, id \in KnownProjects} :
       /\ projects' = r.projects
       /\ tasks' = r.tasks
  /\ UNCHANGED <<users, nUsers, nProjects, nTasks, ct, dp>>

AddTeamMember ==
  /\ \E r \in {addTeamMember(actor, id, userId) :
                 actor \in Actors, id \in KnownProjects, userId \in KnownUsers} :
       projects' = r.projects
  /\ UNCHANGED <<users, nUsers, nProjects, tasks, nTasks, ct, dp>>

RemoveTeamMember ==
  /\ \E r \in {removeTeamMember(actor, id, userId) :
                 actor \in Actors, id \in KnownProjects, userId \in KnownUsers} :
       projects' = r.projects
  /\ UNCHANGED <<users, nUsers, nProjects, tasks, nTasks, ct, dp>>

GetTasks ==
  /\ \E r \in {getTasks(actor, query) : actor \in Actors, query \in TaskQueries} :
       r.status \in {200, 403}
  /\ UNCHANGED vars

GetTaskById ==
  /\ \E r \in {getTaskById(actor, id) : actor \in Actors, id \in KnownTasks} :
       r.status \in {200, 403, 404, 500}
  /\ UNCHANGED vars

CreateTask(limit) ==
  /\ nTasks < limit
  /\ \E r \in {createTask(actor, body) : actor \in Actors, body \in TaskBodies} :
       /\ tasks' = r.tasks
       /\ nTasks' = IF r.tasks # tasks THEN nTasks + 1 ELSE nTasks
  /\ UNCHANGED <<users, nUsers, projects, nProjects, ct, dp>>

UpdateTask ==
  /\ \E r \in {updateTask(actor, id, body) :
                 actor \in Actors, id \in KnownTasks, body \in TaskUpdates} :
       tasks' = r.tasks
  /\ UNCHANGED <<users, nUsers, projects, nProjects, nTasks, ct, dp>>

DeleteTask ==
  /\ \E r \in {deleteTask(actor, id) : actor \in Actors, id \in KnownTasks} :
       tasks' = r.tasks
  /\ UNCHANGED <<users, nUsers, projects, nProjects, nTasks, ct, dp>>

\* ------------------------------------------------- interleaved requests
\* createTask and deleteProject await each repository call, so another
\* request can run between two of their calls.  ct and dp hold such a request
\* between its calls.

\* createTask, lines 119-134: Project.findById and the authorization
CT_FindProject ==
  /\ ct.pc = "idle"
  /\ nTasks < FewTasks
  /\ \E actor \in Actors, body \in TaskBodies :
       /\ createTask(actor, body).status = 200
       /\ ct' = [pc |-> "save", actor |-> actor.id, project |-> body.project,
                 assignedTo |-> body.assignedTo]
  /\ UNCHANGED <<users, nUsers, projects, nProjects, tasks, nTasks, dp>>

\* createTask, lines 137-148: new Task(...).save()
CT_Save ==
  /\ ct.pc = "save"
  /\ tasks' = Put(tasks, nTasks + 1,
                  [project |-> ct.project, assignedTo |-> ct.assignedTo])
  /\ nTasks' = nTasks + 1
  /\ ct' = Idle
  /\ UNCHANGED <<users, nUsers, projects, nProjects, dp>>

\* deleteProject, lines 195-207: Project.findById and the authorization
DP_FindProject ==
  /\ dp.pc = "idle"
  /\ \E actor \in Actors, id \in KnownProjects :
       /\ deleteProject(actor, id).status = 200
       /\ dp' = [pc |-> "deleteMany", actor |-> actor.id, project |-> id,
                 assignedTo |-> NoId]
  /\ UNCHANGED <<users, nUsers, projects, nProjects, tasks, nTasks, ct>>

\* deleteProject, line 210: Task.deleteMany({project: id})
DP_DeleteMany ==
  /\ dp.pc = "deleteMany"
  /\ tasks' = deleteMany(tasks, dp.project)
  /\ dp' = [dp EXCEPT !.pc = "remove"]
  /\ UNCHANGED <<users, nUsers, projects, nProjects, nTasks, ct>>

\* deleteProject, line 213: Project.findByIdAndRemove(id)
DP_Remove ==
  /\ dp.pc = "remove"
  /\ projects' = Drop(projects, dp.project)
  /\ dp' = Idle
  /\ UNCHANGED <<users, nUsers, nProjects, tasks, nTasks, ct>>

\* ----------------------------------------------------------- specifications
\* Every handler, requests handled one at a time, each handler from its first
\* line to its answer.
Next ==
  \/ Register
  \/ UpdateUser
  \/ DeleteUser
  \/ GetProjects
  \/ GetProjectById
  \/ CreateProject(MaxProjects)
  \/ UpdateProject
  \/ DeleteProject
  \/ AddTeamMember
  \/ RemoveTeamMember
  \/ GetTasks
  \/ GetTaskById
  \/ CreateTask(FewTasks)
  \/ UpdateTask
  \/ DeleteTask

Spec == Init /\ [][Next]_vars

\* The user and project handlers.
NextProjects ==
  \/ Register
  \/ UpdateUser
  \/ DeleteUser
  \/ GetProjects
  \/ GetProjectById
  \/ CreateProject(MaxProjects)
  \/ UpdateProject
  \/ DeleteProject
  \/ AddTeamMember
  \/ RemoveTeamMember

SpecProjects == Init /\ [][NextProjects]_vars

\* The task handlers, with the handlers that create and delete what a task
\* refers to.
NextTasks ==
  \/ Register
  \/ DeleteUser
  \/ CreateProject(MaxProjects)
  \/ DeleteProject
  \/ GetTasks
  \/ GetTaskById
  \/ CreateTask(MaxTasks)
  \/ UpdateTask
  \/ DeleteTask

SpecTasks == Init /\ [][NextTasks]_vars

\* createTask and deleteProject interleaved at their repository calls.
NextConc ==
  \/ Register
  \/ CreateProject(FewProjects)
  \/ CT_FindProject
  \/ CT_Save
  \/ DP_FindProject
  \/ DP_DeleteMany
  \/ DP_Remove

SpecConc == Init /\ [][NextConc]_vars

\* The update handlers, with the handlers that create what they update.
NextUpdates ==
  \/ Register
  \/ UpdateUser
  \/ CreateProject(FewProjects)
  \/ UpdateProject
  \/ CreateTask(FewTasks)
  \/ UpdateTask

SpecUpdates == Init /\ [][NextUpdates]_vars

\* ------------------------------------------------------------------ claims
IsAdmin(actor)            == actor.role = "admin"
Manages(actor, p)         == actor.id = projects[p].manager
OnTeam(actor, p)          == InSeq(actor.id, projects[p].team)
ProjectOf(t)              == tasks[t].project
NoDuplicates(s)           == \A i, j \in 1..Len(s) : s[i] = s[j] => i = j

\* C1: for every stored project P and every actor A, getProjectById answers
\* 200 when A is admin, is P's manager or is in P's team, and 403 otherwise.
C1_ViewProjectIff ==
  \A p \in DOMAIN projects, A \in Actors :
    LET status == getProjectById(A, p).status
    IN IF IsAdmin(A) \/ Manages(A, p) \/ OnTeam(A, p)
       THEN status = 200
       ELSE status = 403

\* C2: for every stored task T and actor A, deleteTask removes T exactly when
\* A is admin or the manager of T's project; whoever may delete T may view it
\* with getTaskById; anyone else is answered 403 and the tasks stay as stored.
C2_DeleteTaskIff ==
  \A t \in DOMAIN tasks, A \in Actors :
    /\ ProjectOf(t) \in DOMAIN projects
    /\ LET r         == deleteTask(A, t)
           canDelete == IsAdmin(A) \/ Manages(A, ProjectOf(t))
       IN /\ (t \notin DOMAIN r.tasks) <=> canDelete
          /\ canDelete => /\ r.status = 200
                          /\ r.tasks = Drop(tasks, t)
                          /\ getTaskById(A, t).status = 200
          /\ ~canDelete => r.status = 403 /\ r.tasks = tasks

\* C2 witness: a stored task and an actor on its project's team, or assigned
\* to it, who is neither admin nor the project's manager and is refused,
\* next to an actor who is the manager without being admin.
C2_Witness ==
  \E t \in DOMAIN tasks, A, B \in Actors :
    /\ ProjectOf(t) \in DOMAIN projects
    /\ ~IsAdmin(A) /\ ~Manages(A, ProjectOf(t))
    /\ OnTeam(A, ProjectOf(t)) \/ A.id = tasks[t].assignedTo
    /\ deleteTask(A, t).status = 403
    /\ ~IsAdmin(B) /\ Manages(B, ProjectOf(t))
    /\ deleteTask(B, t).status = 200

\* C3: when deleteProject(P) by an admin or P's manager answers 200, P is no
\* longer stored, no stored task refers to P, and every other project and
\* every task of another project is stored as before; an admin or P's
\* manager is answered 200.
C3_DeleteProjectCascades ==
  \A p \in DOMAIN projects, A \in Actors :
    LET r == deleteProject(A, p)
    IN /\ (IsAdmin(A) \/ Manages(A, p)) <=> r.status = 200
       /\ r.status = 200 =>
            /\ p \notin DOMAIN r.projects
            /\ \A t \in DOMAIN r.tasks : r.tasks[t].project # p
            /\ DOMAIN r.projects = DOMAIN projects \ {p}
            /\ \A q \in DOMAIN r.projects : r.projects[q] = projects[q]
            /\ DOMAIN r.tasks = {t \in DOMAIN tasks : tasks[t].project # p}
            /\ \A t \in DOMAIN r.tasks : r.tasks[t] = tasks[t]

\* C3 witness: two stored projects, a task in each, and a manager who is not
\* admin deleting one of the projects.
C3_Witness ==
  \E p, q \in DOMAIN projects, t, u \in DOMAIN tasks, A \in Actors :
    /\ p # q /\ tasks[t].project = p /\ tasks[u].project = q
    /\ ~IsAdmin(A) /\ Manages(A, p)
    /\ deleteProject(A, p).status = 200

\* C4: in every reachable state, with createTask and deleteProject
\* interleaved at their repository calls, every stored task's project is a
\* stored project.
C4_NoOrphanTask ==
  \A t \in DOMAIN tasks : tasks[t].project \in DOMAIN projects

\* C5: for an admin or the project's manager, addTeamMember of a user already
\* in the team and removeTeamMember of a user not in the team are answered
\* 400 and leave the projects as stored.
C5_TeamConflict ==
  \A p \in DOMAIN projects, A \in Actors, u \in KnownUsers :
    (IsAdmin(A) \/ Manages(A, p)) =>
      /\ InSeq(u, projects[p].team) =>
           LET r == addTeamMember(A, p, u)
           IN r.status = 400 /\ r.projects = projects
      /\ ~InSeq(u, projects[p].team) =>
           LET r == removeTeamMember(A, p, u)
           IN r.status = 400 /\ r.projects = projects

\* C5 witness: a project whose team holds one known user and not another,
\* and a manager who is not admin.
C5_Witness ==
  \E p \in DOMAIN projects, A \in Actors, u, v \in KnownUsers :
    /\ ~IsAdmin(A) /\ Manages(A, p)
    /\ InSeq(u, projects[p].team) /\ ~InSeq(v, projects[p].team)
    /\ addTeamMember(A, p, u).status = 400
    /\ removeTeamMember(A, p, v).status = 400

\* C6: in every reachable state no project's team holds the same user id
\* more than once.
C6_NoDuplicateTeamMember ==
  \A p \in DOMAIN projects : NoDuplicates(projects[p].team)

\* C7: an updateUser by a non-admin actor on their own stored user, with a
\* role in the body, is answered 200 and leaves the stored role as it was;
\* and in every step the role of a stored user changes only by an updateUser
\* whose actor has role admin.
C7_RoleKept ==
  \A A \in Actors, body \in UserBodies :
    (~IsAdmin(A) /\ A.id \in DOMAIN users /\ body.valid /\ body.role # NoRole) =>
      LET r == updateUser(A, A.id, body)
      IN /\ r.status = 200
         /\ DOMAIN r.users = DOMAIN users
         /\ r.users[A.id].role = users[A.id].role

C7_RoleChangedByAdmin ==
  \A u \in (DOMAIN users) \cap (DOMAIN users') :
    users'[u].role # users[u].role =>
      \E A \in Actors, body \in UserBodies :
        /\ IsAdmin(A)
        /\ updateUser(A, u, body).status = 200
        /\ users' = updateUser(A, u, body).users

C7_RoleOnlyByAdmin == [](C7_RoleKept) /\ [][C7_RoleChangedByAdmin]_vars

\* C7 witness: a stored member, acting under a token that is not admin's,
\* asks for role admin and is answered 200, next to a stored admin.
C7_Witness ==
  \E A \in Actors, u \in DOMAIN users :
    /\ ~IsAdmin(A) /\ A.id \in DOMAIN users /\ users[A.id].role = "member"
    /\ updateUser(A, A.id, [valid |-> TRUE, role |-> "admin"]).status = 200
    /\ u # A.id /\ users[u].role = "admin"

\* Every mutating handler, on every actor and input: when it answers a status
\* in `statuses`, the collection it writes is what it was before the request.
LeavesStored(statuses) ==
  /\ \A A \in Actors, id \in KnownUsers, body \in UserBodies :
       LET r == updateUser(A, id, body)
       IN r.status \in statuses => r.users = users
  /\ \A A \in Actors, id \in KnownUsers :
       LET r == deleteUser(A, id)
       IN r.status \in statuses => r.users = users
  /\ \A A \in Actors, body \in ProjectBodies :
       LET r == createProject(A, body)
       IN r.status \in statuses => r.projects = projects
  /\ \A A \in Actors, id \in KnownProjects, body \in ProjectFields :
       LET r == updateProject(A, id, body)
       IN r.status \in statuses => r.projects = projects
  /\ \A A \in Actors, id \in KnownProjects :
       LET r == deleteProject(A, id)
       IN r.status \in statuses => r.projects = projects /\ r.tasks = tasks
  /\ \A A \in Actors, id \in KnownProjects, userId \in KnownUsers :
       /\ LET r == addTeamMember(A, id, userId)
          IN r.status \in statuses => r.projects = projects
       /\ LET r == removeTeamMember(A, id, userId)
          IN r.status \in statuses => r.projects = projects
  /\ \A A \in Actors, body \in TaskBodies :
       LET r == createTask(A, body)
       IN r.status \in statuses => r.tasks = tasks
  /\ \A A \in Actors, id \in KnownTasks, body \in TaskUpdates :
       LET r == updateTask(A, id, body)
       IN r.status \in statuses => r.tasks = tasks
  /\ \A A \in Actors, id \in KnownTasks :
       LET r == deleteTask(A, id)
       IN r.status \in statuses => r.tasks = tasks

\* C8: whenever updateUser, deleteUser, createProject, updateProject,
\* deleteProject, addTeamMember, removeTeamMember, createTask, updateTask or
\* deleteTask answers 403, the stored users, projects and tasks are what they
\* were before the request.
C8_ForbiddenLeavesStored == LeavesStored({403})

\* C8 witness: one actor refused by updateUser, by updateProject with a body
\* that would change the project, and by updateTask with a body that would
\* change the task.
C8_Witness ==
  \E A \in Actors, u \in DOMAIN users, p \in DOMAIN projects, t \in DOMAIN tasks,
     pb \in ProjectFields, tb \in TaskUpdates :
    /\ updateUser(A, u, [valid |-> TRUE, role |-> "admin"]).status = 403
    /\ updateProject(A, p, pb).status = 403
    /\ projectFields(projects[p], pb) # projects[p]
    /\ updateTask(A, t, tb).status = 403
    /\ tb.assignedTo # NoId /\ tb.assignedTo # tasks[t].assignedTo

\* C9: whenever a handler answers anything but success (400, 403, 404 or
\* 500), nothing it wrote earlier in the request stays stored: the users,
\* projects and tasks are what they were before the request.
C9_ErrorLeavesStored == LeavesStored({400, 403, 404, 500})

\* C10: createProject by an actor of role admin or manager with a valid body
\* is answered 200 and stores exactly one new project, whose manager is the
\* body's manager or, without one, the actor; an actor of another role is
\* answered 403 and no project is stored.
C10_CreateProjectSucceeds ==
  \A A \in Actors, body \in ProjectBodies :
    LET r   == createProject(A, body)
        new == nProjects + 1
    IN IF A.role \in {"admin", "manager"}
       THEN body.valid =>
              /\ r.status = 200
              /\ DOMAIN r.projects = (DOMAIN projects) \cup {new}
              /\ \A q \in DOMAIN projects : r.projects[q] = projects[q]
              /\ r.projects[new].manager =
                   IF body.manager # NoId THEN body.manager ELSE A.id
       ELSE r.status = 403 /\ r.projects = projects

\* C11: for every stored task T (its project stored) and every actor A,
\* updateTask and getTaskById allow the same requests: each answers 200
\* exactly when A is admin, manages T's project, is in that project's team or
\* is T's assignedTo, and 403 otherwise.
C11_UpdateIffView ==
  \A t \in DOMAIN tasks, A \in Actors :
    ProjectOf(t) \in DOMAIN projects =>
      LET allowed == \/ IsAdmin(A)
                     \/ Manages(A, ProjectOf(t))
                     \/ OnTeam(A, ProjectOf(t))
                     \/ A.id = tasks[t].assignedTo
          view    == getTaskById(A, t).status
      IN /\ view = (IF allowed THEN 200 ELSE 403)
         /\ \A body \in TaskUpdates : updateTask(A, t, body).status = view

\* C12: for an actor A whose role is not admin, whatever the query, every
\* task getTasks returns belongs to a stored project that A manages or whose
\* team holds A; and a query naming a stored project that A neither manages
\* nor is on the team of is answered 403.
C12_GetTasksOnlyAccessible ==
  \A A \in Actors, query \in TaskQueries :
    ~IsAdmin(A) =>
      LET r == getTasks(A, query)
      IN /\ \A t \in r.tasks :
              /\ t \in DOMAIN tasks
              /\ ProjectOf(t) \in DOMAIN projects
              /\ Manages(A, ProjectOf(t)) \/ OnTeam(A, ProjectOf(t))
         /\ (/\ query.project \in DOMAIN projects
             /\ ~Manages(A, query.project)
             /\ ~OnTeam(A, query.project)) => r.status = 403

\* C12 witness: an actor who is not admin, on the team of one stored project
\* and a stranger to another, a task in each: the unfiltered list holds the
\* first task only, also when the query asks for tasks assigned to the user
\* the other task is assigned to, and the query naming the other project is
\* answered 403.
C12_Witness ==
  \E A \in Actors, p, q \in DOMAIN projects, t, u \in DOMAIN tasks :
    /\ ~IsAdmin(A) /\ OnTeam(A, p) /\ ~Manages(A, q) /\ ~OnTeam(A, q)
    /\ tasks[t].project = p /\ tasks[u].project = q
    /\ tasks[u].assignedTo # NoId
    /\ getTasks(A, [project |-> NoId, assigned |-> "any", user |-> NoId]).tasks = {t}
    /\ u \notin getTasks(A, [project |-> NoId, assigned |-> "user",
                             user |-> tasks[u].assignedTo]).tasks
    /\ getTasks(A, [project |-> q, assigned |-> "any", user |-> NoId]).status = 403

\* C13: for every stored project P and actor A, updateProject, deleteProject,
\* addTeamMember and removeTeamMember go through exactly when A's role is
\* admin or A.id is P's stored manager: updateProject and deleteProject then
\* answer 200, the team handlers 200 or 400 (user already in, or not in, the
\* team); every other actor is answered 403 by all four.
C13_ManageProjectIff ==
  \A p \in DOMAIN projects, A \in Actors :
    LET allowed == IsAdmin(A) \/ Manages(A, p)
    IN /\ \A body \in ProjectFields :
            updateProject(A, p, body).status = (IF allowed THEN 200 ELSE 403)
       /\ deleteProject(A, p).status = (IF allowed THEN 200 ELSE 403)
       /\ \A u \in KnownUsers :
            /\ addTeamMember(A, p, u).status \in
                 (IF allowed THEN {200, 400} ELSE {403})
            /\ removeTeamMember(A, p, u).status \in
                 (IF allowed THEN {200, 400} ELSE {403})

\* C13 witness: a stored project whose manager acts under role member and
\* updates it, while an actor of role manager who is on its team but does
\* not manage it is answered 403 by all four handlers.
C13_Witness ==
  \E p \in DOMAIN projects, M, B \in Actors, body \in ProjectFields :
    /\ M.role = "member" /\ Manages(M, p)
    /\ updateProject(M, p, body).status = 200
    /\ removeTeamMember(M, p, B.id).status = 200
    /\ B.role = "manager" /\ ~Manages(B, p) /\ OnTeam(B, p)
    /\ updateProject(B, p, body).status = 403
    /\ deleteProject(B, p).status = 403
    /\ addTeamMember(B, p, M.id).status = 403
    /\ removeTeamMember(B, p, B.id).status = 403

\* C14: when updateUser, updateProject or updateTask answers 200, every
\* field that the body leaves out or gives as a falsy value (role "", no
\* manager, no team, no assignedTo) is stored as it was before; and in every
\* step that applies such an update, applying the same request once more
\* leaves the stored entities as that step left them.
C14_FalsyKept ==
  /\ \A A \in Actors, u \in DOMAIN users, body \in UserBodies :
       LET r == updateUser(A, u, body)
       IN (r.status = 200 /\ body.role = NoRole) => r.users = users
  /\ \A A \in Actors, p \in DOMAIN projects, body \in ProjectFields :
       LET r == updateProject(A, p, body)
       IN r.status = 200 =>
            /\ DOMAIN r.projects = DOMAIN projects
            /\ body.manager = NoId => r.projects[p].manager = projects[p].manager
            /\ ~body.hasTeam => r.projects[p].team = projects[p].team
  /\ \A A \in Actors, t \in DOMAIN tasks, body \in TaskUpdates :
       LET r == updateTask(A, t, body)
       IN (r.status = 200 /\ body.assignedTo = NoId) => r.tasks = tasks

C14_SameTwice ==
  /\ \A A \in Actors, u \in DOMAIN users, body \in UserBodies :
       (updateUser(A, u, body).status = 200 /\ users' = updateUser(A, u, body).users)
         => (updateUser(A, u, body).users)' = users'
  /\ \A A \in Actors, p \in DOMAIN projects, body \in ProjectFields :
       (/\ updateProject(A, p, body).status = 200
        /\ projects' = updateProject(A, p, body).projects)
         => (updateProject(A, p, body).projects)' = projects'
  /\ \A A \in Actors, t \in DOMAIN tasks, body \in TaskUpdates :
       (updateTask(A, t, body).status = 200 /\ tasks' = updateTask(A, t, body).tasks)
         => (updateTask(A, t, body).tasks)' = tasks'

C14_PartialUpdate == [](C14_FalsyKept) /\ [][C14_SameTwice]_vars

\* C14 witness: a stored manager, a project with a team managed by an actor
\* who is not admin, and an assigned task of that project; the actor's
\* updateProject and updateTask with nothing in the body and an admin's
\* updateUser with role "" are answered 200, and so is the actor's
\* updateProject that hands the project and its team to someone else, after
\* which the same request is refused.
C14_Witness ==
  \E A, B \in Actors, u \in DOMAIN users, p \in DOMAIN projects, t \in DOMAIN tasks,
     other \in KnownUsers :
    /\ IsAdmin(B) /\ users[u].role = "manager"
    /\ updateUser(B, u, [valid |-> TRUE, role |-> NoRole]).status = 200
    /\ ~IsAdmin(A) /\ Manages(A, p) /\ projects[p].team # <<>>
    /\ updateProject(A, p, [manager |-> NoId, hasTeam |-> FALSE,
                            team |-> <<>>]).status = 200
    /\ other # A.id
    /\ updateProject(A, p, [manager |-> other, hasTeam |-> TRUE,
                            team |-> <<other>>]).status = 200
    /\ tasks[t].project = p /\ tasks[t].assignedTo # NoId
    /\ updateTask(A, t, [assignedTo |-> NoId]).status = 200

\* C15: in every reachable state, for every actor A and stored project P,
\* P is in the list getProjects answers to A exactly when getProjectById(P)
\* answers 200 to A.
C15_ListAgreesWithView ==
  \A A \in Actors, p \in DOMAIN projects :
    (p \in getProjects(A).projects) <=> (getProjectById(A, p).status = 200)

====
